---- MODULE Spec2Model ----
(***************************************************************************)
(* Model of src/src/experiment.rs: the Experiment builder, the two entry   *)
(* points run and run_result, and the instrumentation they emit.           *)
(*                                                                         *)
(* A deferred computation (a Future) is a number of progress steps, each   *)
(* one a side effect of the computation, followed by an output; a future   *)
(* that hangs never becomes ready.  Only polls that make progress are      *)
(* steps: a poll that finds the future Pending changes nothing.            *)
(***************************************************************************)
EXTENDS Integers, Sequences, FiniteSets, TLC

\* ---------------------------------------------------------------- bounds
MaxSteps == 2
MaxValue == 1

\* ---------------------------------------------------------------- values
Values == 0..MaxValue

Plain(v) == [tag |-> "val", v |-> v]
Ok(v) == [tag |-> "ok", v |-> v]
Err(e) == [tag |-> "err", v |-> e]
NoValue == [tag |-> "none", v |-> 0]

IsOk(r) == r.tag = "ok"
IsErr(r) == r.tag = "err"

\* the values of the type parameter T (result_type: PhantomData<T>)
Outputs(t) ==
    IF t = "result" THEN {Ok(v) : v \in Values} \cup {Err(v) : v \in Values}
    ELSE {Plain(v) : v \in Values}

ResultTypes == {"plain", "result"}
Names == {"test"}

\* the unit value () of a builder field that has not been supplied
Unset == [set |-> FALSE, steps |-> 0, out |-> NoValue, hangs |-> FALSE]

Futures(t) ==
    [set : {TRUE}, steps : 1..MaxSteps, out : Outputs(t), hangs : BOOLEAN]

UseControl == "UseControl"
UseExperimental == "UseExperimental"
UseExperimentalAndCompare == "UseExperimentalAndCompare"
RolloutDecision == {UseControl, UseExperimentalAndCompare, UseExperimental}

NoStrategy == [set |-> FALSE, kind |-> "unit", d |-> "none"]
Strategies ==
    {[set |-> TRUE, kind |-> "fixed", d |-> d] : d \in RolloutDecision}
        \cup {[set |-> TRUE, kind |-> "random", d |-> "none"]}

\* RolloutStrategy::rollout_decision: the decisions a strategy may return
rollout_decision(r) ==
    IF r.kind = "fixed" THEN {r.d} ELSE RolloutDecision

AlwaysControl == [kind |-> "AlwaysControl", f |-> "control", out |-> NoValue]
FnTrait(t) ==
    {[kind |-> "FnTrait", f |-> f, out |-> NoValue] : f \in {"control", "experimental"}}
        \cup {[kind |-> "FnTrait", f |-> "const", out |-> o] : o \in Outputs(t)}

\* Mismatch with the two sides exchanged
MismatchSwapped(c, x) == [control |-> x, experimental |-> c]

\* the struct Mismatch handed to the handler
Mismatch(c, x) == [control |-> c, experimental |-> x]

\* MismatchHandler::on_mismatch: the value handler h returns for mismatch m
on_mismatch(h, m) ==
    CASE h.f = "control" -> m.control
      [] h.f = "experimental" -> m.experimental
      [] OTHER -> h.out

\* ---------------------------------------------------------------- state
VARIABLES name, result_type, control_builder, experimental_builder,
          rollout_strategy, mismatch_handler,
          pc, entry, decision, control, experimental,
          history, mismatches, ret

vars == <<name, result_type, control_builder, experimental_builder,
          rollout_strategy, mismatch_handler,
          pc, entry, decision, control, experimental,
          history, mismatches, ret>>

fields == <<name, result_type, control_builder, experimental_builder,
            rollout_strategy, mismatch_handler>>

\* the execution state of one side's future
Unstarted == [status |-> "unstarted", polled |-> 0, out |-> NoValue]

Ev(op, n, kind, outcome) == [op |-> op, name |-> n, kind |-> kind, outcome |-> outcome]

\* Init with a default handler that accepts the experimental value
InitAcceptingExperimental ==
    /\ name \in Names
    /\ result_type \in ResultTypes
    /\ control_builder = Unset
    /\ experimental_builder = Unset
    /\ mismatch_handler = [kind |-> "AlwaysExperimental", f |-> "experimental",
                           out |-> NoValue]
    /\ rollout_strategy = NoStrategy
    /\ pc = "building"
    /\ entry = "none"
    /\ decision = "none"
    /\ control = Unstarted
    /\ experimental = Unstarted
    /\ history = <<>>
    /\ mismatches = <<>>
    /\ ret = NoValue

\* Experiment::new
Init ==
    /\ name \in Names
    /\ result_type \in ResultTypes
    /\ control_builder = Unset
    /\ experimental_builder = Unset
    /\ mismatch_handler = AlwaysControl
    /\ rollout_strategy = NoStrategy
    /\ pc = "building"
    /\ entry = "none"
    /\ decision = "none"
    /\ control = Unstarted
    /\ experimental = Unstarted
    /\ history = <<>>
    /\ mismatches = <<>>
    /\ ret = NoValue

exec == <<pc, entry, decision, control, experimental, history, mismatches, ret>>

\* Control rebuilding the Experiment from the defaults of new: the handler
\* registered before it is lost
ControlFromDefaults ==
    /\ pc = "building"
    /\ \E f \in Futures(result_type) : control_builder' = f
    /\ mismatch_handler' = AlwaysControl
    /\ UNCHANGED <<name, result_type, experimental_builder, rollout_strategy>>
    /\ UNCHANGED exec

\* Experiment::control
Control ==
    /\ pc = "building"
    /\ \E f \in Futures(result_type) : control_builder' = f
    /\ UNCHANGED <<name, result_type, experimental_builder, rollout_strategy,
                   mismatch_handler>>
    /\ UNCHANGED exec

\* Experiment::experimental
Experimental ==
    /\ pc = "building"
    /\ \E f \in Futures(result_type) : experimental_builder' = f
    /\ UNCHANGED <<name, result_type, control_builder, rollout_strategy,
                   mismatch_handler>>
    /\ UNCHANGED exec

\* Experiment::rollout_strategy
RolloutStrategy ==
    /\ pc = "building"
    /\ \E r \in Strategies : rollout_strategy' = r
    /\ UNCHANGED <<name, result_type, control_builder, experimental_builder,
                   mismatch_handler>>
    /\ UNCHANGED exec

\* Experiment::on_mismatch
OnMismatch ==
    /\ pc = "building"
    /\ \E m \in FnTrait(result_type) : mismatch_handler' = m
    /\ UNCHANGED <<name, result_type, control_builder, experimental_builder,
                   rollout_strategy>>
    /\ UNCHANGED exec

\* ---------------------------------------------------------------- execution
\* VariantKind with the compare arm carrying the tag of the experimental arm
VariantKindPasted(d) ==
    CASE d = UseControl -> "control"
      [] OTHER -> "experimental"

\* the "kind" tag of the thesis_experiment_run_variant counter
VariantKind(d) ==
    CASE d = UseControl -> "control"
      [] d = UseExperimentalAndCompare -> "experimental_and_compare"
      [] OTHER -> "experimental"

\* Selected with the UseControl and UseExperimental arms driving both futures
SelectedBoth(d) ==
    IF d \in RolloutDecision THEN {"control", "experimental"} ELSE {}

\* the sides whose future the match arm of decision d awaits
Selected(d) ==
    CASE d = UseControl -> {"control"}
      [] d = UseExperimentalAndCompare -> {"control", "experimental"}
      [] d = UseExperimental -> {"experimental"}
      [] OTHER -> {}

\* the synchronous head of run and run_result: the run counter, the query of
\* the rollout strategy, the variant counter of the arm taken
Prologue(n, d) ==
    << Ev("thesis_experiment_run_total", n, "", ""),
       Ev("rollout_decision", n, "", d),
       Ev("thesis_experiment_run_variant", n, VariantKind(d), "") >>

Begin(e) ==
    /\ pc = "building"
    /\ control_builder.set
    /\ experimental_builder.set
    /\ rollout_strategy.set
    /\ \E d \in rollout_decision(rollout_strategy) :
          /\ decision' = d
          /\ history' = history \o Prologue(name, d)
    /\ pc' = "running"
    /\ entry' = e
    /\ UNCHANGED <<control, experimental, mismatches, ret>>
    /\ UNCHANGED fields

\* Experiment::run, up to its first await
Run == Begin("run")

\* Experiment::run_result, up to its first await; T must be a Result
RunResult ==
    /\ result_type = "result"
    /\ Begin("run_result")

\* Pollable with futures that start running as soon as they are supplied
PollableEager(side) ==
    \/ pc = "building"
    \/ pc = "running" /\ side \in Selected(decision)

\* a side's future may be driven: the invocation is at its await and the arm
\* taken awaits that side
Pollable(side) ==
    /\ pc = "running"
    /\ side \in Selected(decision)

\* measure_duration: one progress step of future b in execution state s
Advance(b, s) ==
    LET p == s.polled + 1
        ready == p >= b.steps /\ ~b.hangs
    IN  [status |-> IF ready THEN "ready" ELSE "pending",
         polled |-> p,
         out |-> IF ready THEN b.out ELSE NoValue]

\* Measured with the result classified where the future resolves
MeasuredClassified(n, kind, s) ==
    << Ev("poll", n, kind, "") >>
        \o (IF s.status = "ready"
            THEN << Ev("thesis_experiment_run_duration", n, kind, ""),
                    Ev("thesis_experiment_outcome", n, kind,
                       IF s.out.tag = "err" THEN "error" ELSE "ok") >>
            ELSE << >>)

\* measure_duration: what one progress step records
Measured(n, kind, s) ==
    << Ev("poll", n, kind, "") >>
        \o (IF s.status = "ready"
            THEN << Ev("thesis_experiment_run_duration", n, kind, "") >>
            ELSE << >>)

CanAdvance(b, s) ==
    /\ s.status \in {"unstarted", "pending"}
    /\ s.polled < b.steps

\* instrument_control
PollControl ==
    /\ Pollable("control")
    /\ CanAdvance(control_builder, control)
    /\ control' = Advance(control_builder, control)
    /\ history' = history \o Measured(name, "control", control')
    /\ UNCHANGED <<pc, entry, decision, experimental, mismatches, ret>>
    /\ UNCHANGED fields

\* instrument_experimental
PollExperimental ==
    /\ Pollable("experimental")
    /\ CanAdvance(experimental_builder, experimental)
    /\ experimental' = Advance(experimental_builder, experimental)
    /\ history' = history \o Measured(name, "experimental", experimental')
    /\ UNCHANGED <<pc, entry, decision, control, mismatches, ret>>
    /\ UNCHANGED fields

\* ---------------------------------------------------------------- outcomes
\* outcome_mismatch
outcome_mismatch(n) ==
    Ev("thesis_experiment_outcome", n, "experimental_and_compare", "mismatch")

\* outcome_ok
outcome_ok(n, kind) == Ev("thesis_experiment_outcome", n, kind, "ok")

\* outcome_error
outcome_error(n, kind) == Ev("thesis_experiment_outcome", n, kind, "error")

\* outcome that classifies every result as a success
outcome_always_ok(n, kind, result) == outcome_ok(n, kind)

\* outcome
outcome(n, kind, result) ==
    IF IsOk(result) THEN outcome_ok(n, kind) ELSE outcome_error(n, kind)

\* the call self.mismatch_handler.on_mismatch(mismatch) as it shows in history
Called(n) == Ev("on_mismatch", n, "", "")

\* What the code after the await(s) does: the events it records in order,
\* the mismatches it hands to the handler, the value it returns.
Effect(events, calls, r) == [events |-> events, calls |-> calls, ret |-> r]

\* Compare with the handler consulted whether or not the values differ
CompareAlways(n, c, x, h) ==
    Effect(<< outcome_mismatch(n), Called(n) >>,
           << Mismatch(c, x) >>,
           on_mismatch(h, Mismatch(c, x)))

\* run, UseExperimentalAndCompare, after tokio::join!
Compare(n, c, x, h) ==
    IF c # x
    THEN Effect(<< outcome_mismatch(n), Called(n) >>,
              << Mismatch(c, x) >>,
              on_mismatch(h, Mismatch(c, x)))
    ELSE Effect(<< >>, << >>, c)

\* BothOk with the comparison left out
BothOkUncompared(n, a, b, h) == Effect(<< >>, << >>, Ok(a))

\* run_result, arm (Ok(control), Ok(experimental))
BothOk(n, a, b, h) ==
    IF a # b
    THEN Effect(<< outcome_mismatch(n), Called(n) >>,
                << Mismatch(Ok(a), Ok(b)) >>,
                on_mismatch(h, Mismatch(Ok(a), Ok(b))))
    ELSE Effect(<< >>, << >>, Ok(a))

\* ExperimentalErr handled like ControlErr: the handler decides
ExperimentalErrReconciled(n, a, f, h) ==
    Effect(<< outcome_mismatch(n), Called(n) >>,
           << Mismatch(Ok(a), Err(f)) >>,
           on_mismatch(h, Mismatch(Ok(a), Err(f))))

\* ExperimentalErr without the mismatch event
ExperimentalErrSilent(n, a, f, h) == Effect(<< >>, << >>, Ok(a))

\* run_result, arm (Ok(control), Err(_))
ExperimentalErr(n, a, f, h) ==
    Effect(<< outcome_mismatch(n) >>, << >>, Ok(a))

\* ControlErr handled like ExperimentalErr: control wins without the handler
ControlErrSurfaced(n, e, b, h) ==
    Effect(<< outcome_mismatch(n) >>, << >>, Err(e))

\* run_result, arm (Err(control), Ok(experimental))
ControlErr(n, e, b, h) ==
    Effect(<< outcome_mismatch(n), Called(n) >>,
           << Mismatch(Err(e), Ok(b)) >>,
           on_mismatch(h, Mismatch(Err(e), Ok(b))))

\* BothErr returning the experimental failure
BothErrExperimental(e, f) == Effect(<< >>, << >>, Err(f))

\* run_result, arm (Err(control), Err(_))
BothErr(e, f) == Effect(<< >>, << >>, Err(e))

\* Reconcile with the asymmetric arms exchanged: a lone control failure is
\* hidden behind the experimental success, a lone experimental failure goes
\* to the handler
ReconcileExchanged(n, c, x, h) ==
    CASE IsOk(c) /\ IsOk(x) -> BothOk(n, c.v, x.v, h)
      [] IsOk(c) /\ IsErr(x) ->
            Effect(<< outcome_mismatch(n), Called(n) >>,
                   << Mismatch(Ok(c.v), Err(x.v)) >>,
                   on_mismatch(h, Mismatch(Ok(c.v), Err(x.v))))
      [] IsErr(c) /\ IsOk(x) -> Effect(<< outcome_mismatch(n) >>, << >>, Ok(x.v))
      [] OTHER -> BothErr(c.v, x.v)

\* run_result, UseExperimentalAndCompare: the match on (control, experimental)
Reconcile(n, c, x, h) ==
    CASE IsOk(c) /\ IsOk(x) -> BothOk(n, c.v, x.v, h)
      [] IsOk(c) /\ IsErr(x) -> ExperimentalErr(n, c.v, x.v, h)
      [] IsErr(c) /\ IsOk(x) -> ControlErr(n, c.v, x.v, h)
      [] OTHER -> BothErr(c.v, x.v)

\* CompareResult with the two sides classified after the reconciliation
CompareResultLate(n, c, x, h) ==
    LET t == Reconcile(n, c, x, h)
    IN  Effect(t.events
                 \o << outcome(n, "control", c), outcome(n, "experimental", x) >>,
               t.calls, t.ret)

\* run_result, UseExperimentalAndCompare, after tokio::join!
CompareResult(n, c, x, h) ==
    LET t == Reconcile(n, c, x, h)
    IN  Effect(<< outcome(n, "control", c), outcome(n, "experimental", x) >>
                 \o t.events,
             t.calls, t.ret)

\* RunTail with the comparison outside its arm
RunTailCompared(d, n, c, x, h) == Compare(n, c, x, h)

\* run: the match arms after their await
RunTail(d, n, c, x, h) ==
    CASE d = UseControl -> Effect(<< >>, << >>, c)
      [] d = UseExperimentalAndCompare -> Compare(n, c, x, h)
      [] OTHER -> Effect(<< >>, << >>, x)

\* RunResultTail with a failure of the only path run handed to the handler
RunResultTailReconciled(d, n, c, x, h) ==
    CASE d = UseExperimentalAndCompare -> CompareResult(n, c, x, h)
      [] d = UseControl /\ IsOk(c) -> Effect(<< outcome(n, "control", c) >>, << >>, c)
      [] d = UseExperimental /\ IsOk(x) ->
            Effect(<< outcome(n, "experimental", x) >>, << >>, x)
      [] OTHER ->
            Effect(<< outcome_mismatch(n), Called(n) >>,
                   << Mismatch(c, x) >>,
                   on_mismatch(h, Mismatch(c, x)))

\* run_result: the match arms after their await
RunResultTail(d, n, c, x, h) ==
    CASE d = UseControl -> Effect(<< outcome(n, "control", c) >>, << >>, c)
      [] d = UseExperimentalAndCompare -> CompareResult(n, c, x, h)
      [] OTHER -> Effect(<< outcome(n, "experimental", x) >>, << >>, x)

\* Joined as a race: resolves when either branch has resolved
JoinedEither(c, x) == c.status = "ready" \/ x.status = "ready"

\* tokio::join!: resolves when both branches have resolved
Joined(c, x) == c.status = "ready" /\ x.status = "ready"

\* Awaited with every arm waiting for both futures
AwaitedJoin(d, c, x) == Joined(c, x)

\* the await of the arm taken has resolved
Awaited(d, c, x) ==
    CASE d = UseControl -> c.status = "ready"
      [] d = UseExperimentalAndCompare -> Joined(c, x)
      [] OTHER -> x.status = "ready"

\* a future the invocation did not drive to completion is dropped with it
Drop(s) == IF s.status = "ready" THEN s ELSE [s EXCEPT !.status = "dropped"]

\* run and run_result from the resolved await to the return
Return ==
    /\ pc = "running"
    /\ Awaited(decision, control, experimental)
    /\ LET t == IF entry = "run"
                THEN RunTail(decision, name, control.out, experimental.out,
                             mismatch_handler)
                ELSE RunResultTail(decision, name, control.out, experimental.out,
                                   mismatch_handler)
       IN  /\ history' = history \o t.events \o << Ev("return", name, "", "") >>
           /\ mismatches' = mismatches \o t.calls
           /\ ret' = t.ret
    /\ pc' = "done"
    /\ control' = Drop(control)
    /\ experimental' = Drop(experimental)
    /\ UNCHANGED <<entry, decision>>
    /\ UNCHANGED fields

Next ==
    \/ Control
    \/ Experimental
    \/ RolloutStrategy
    \/ OnMismatch
    \/ Run
    \/ RunResult
    \/ PollControl
    \/ PollExperimental
    \/ Return

Spec == Init /\ [][Next]_vars

\* The task that runs the invocation is polled again whenever one of its
\* futures can make progress, and runs to the next await once polled.
FairSpec ==
    /\ Spec
    /\ WF_vars(PollControl)
    /\ WF_vars(PollExperimental)
    /\ WF_vars(Return)

\* ---------------------------------------------------------------- typing
TypeOK ==
    /\ pc \in {"building", "running", "done"}
    /\ entry \in {"none", "run", "run_result"}
    /\ decision \in RolloutDecision \cup {"none"}
    /\ control.polled \in 0..MaxSteps
    /\ experimental.polled \in 0..MaxSteps
    /\ ret \in Outputs(result_type) \cup {NoValue}

\* ---------------------------------------------------------------- history
Positions(op) == {i \in DOMAIN history : history[i].op = op}

PositionsOf(op, kind) ==
    {i \in DOMAIN history : history[i].op = op /\ history[i].kind = kind}

Recorded(e) == Cardinality({i \in DOMAIN history : history[i] = e})

Both == decision = UseExperimentalAndCompare

\* the values the two computations produce
c0 == control_builder.out
x0 == experimental_builder.out

\* ---------------------------------------------------------------- claims

\* C1: under UseControl no step of the experimental computation ever occurs,
\* under UseExperimental no step of the control computation ever occurs, in
\* run and in run_result, and before the invocation neither has taken a step.
C1_UnselectedNeverStarts ==
    /\ decision = UseControl =>
          /\ experimental.polled = 0
          /\ experimental.status \in {"unstarted", "dropped"}
          /\ PositionsOf("poll", "experimental") = {}
    /\ decision = UseExperimental =>
          /\ control.polled = 0
          /\ control.status \in {"unstarted", "dropped"}
          /\ PositionsOf("poll", "control") = {}
    /\ decision = "none" => control.polled = 0 /\ experimental.polled = 0

C1_Witness ==
    /\ pc = "done"
    /\ entry = "run_result"
    /\ decision = UseExperimental
    /\ experimental.polled >= 2
    /\ control_builder.set
    /\ control.status = "dropped"
    /\ ret = x0

\* C2: run under UseExperimentalAndCompare with equal control and
\* experimental values never invokes the handler and returns the control value.
C2_EqualReturnsControl ==
    (pc = "done" /\ entry = "run" /\ Both /\ c0 = x0) =>
        /\ mismatches = << >>
        /\ Positions("on_mismatch") = {}
        /\ ret = c0

C2_Witness ==
    /\ pc = "done"
    /\ entry = "run"
    /\ Both
    /\ c0 = x0
    /\ mismatch_handler.f = "const"
    /\ mismatch_handler.out # c0
    /\ ret = c0

\* C3: run under UseExperimentalAndCompare with unequal values invokes the
\* handler exactly once, with control and experimental in their own fields,
\* and returns what the handler returns.
C3_UnequalReconciled ==
    (pc = "done" /\ entry = "run" /\ Both /\ c0 # x0) =>
        /\ mismatches = << [control |-> c0, experimental |-> x0] >>
        /\ Cardinality(Positions("on_mismatch")) = 1
        /\ ret = on_mismatch(mismatch_handler, [control |-> c0, experimental |-> x0])

C3_Witness ==
    /\ pc = "done"
    /\ entry = "run"
    /\ Both
    /\ c0 # x0
    /\ mismatch_handler.f = "experimental"
    /\ ret = x0
    /\ Len(mismatches) = 1

\* C4: run_result under UseExperimentalAndCompare, control Ok(a) and
\* experimental Err: the invocation returns Ok(a), the handler is not invoked,
\* the experimental computation ran to completion, and its error outcome and
\* exactly one mismatch event are recorded.
C4_ExperimentalFailureHidden ==
    (pc = "done" /\ entry = "run_result" /\ Both /\ IsOk(c0) /\ IsErr(x0)) =>
        /\ ret = c0
        /\ mismatches = << >>
        /\ Positions("on_mismatch") = {}
        /\ experimental.status = "ready"
        /\ experimental.polled = experimental_builder.steps
        /\ Recorded(outcome_error(name, "experimental")) = 1
        /\ Recorded(outcome_ok(name, "experimental")) = 0
        /\ Recorded(outcome_mismatch(name)) = 1

C4_Witness ==
    /\ pc = "done"
    /\ entry = "run_result"
    /\ Both
    /\ IsOk(c0)
    /\ IsErr(x0)
    /\ mismatch_handler.f = "experimental"
    /\ experimental.polled >= 2
    /\ ret = c0

\* C5: run_result under UseExperimentalAndCompare, control Err(e) and
\* experimental Ok(b): the handler is invoked exactly once with
\* {control: Err(e), experimental: Ok(b)} and its value, a success or a
\* failure, is returned.
C5_ControlFailureReconciled ==
    (pc = "done" /\ entry = "run_result" /\ Both /\ IsErr(c0) /\ IsOk(x0)) =>
        /\ mismatches = << [control |-> c0, experimental |-> x0] >>
        /\ Cardinality(Positions("on_mismatch")) = 1
        /\ ret = on_mismatch(mismatch_handler, [control |-> c0, experimental |-> x0])

C5_Witness ==
    /\ pc = "done"
    /\ entry = "run_result"
    /\ Both
    /\ IsErr(c0)
    /\ IsOk(x0)
    /\ Len(mismatches) = 1
    /\ IsErr(ret)
    /\ ret # c0

\* C6: run_result under UseExperimentalAndCompare, both sides Err: the control
\* failure is returned unchanged and the handler is not invoked, whether or
\* not the two failures are the same.
C6_BothFailReturnsControl ==
    (pc = "done" /\ entry = "run_result" /\ Both /\ IsErr(c0) /\ IsErr(x0)) =>
        /\ ret = c0
        /\ mismatches = << >>
        /\ Positions("on_mismatch") = {}

C6_Witness ==
    /\ pc = "done"
    /\ entry = "run_result"
    /\ Both
    /\ IsErr(c0)
    /\ IsErr(x0)
    /\ c0 # x0
    /\ mismatch_handler.f = "experimental"
    /\ ret = c0

\* C7: run_result under UseExperimentalAndCompare, both sides Ok: equal values
\* return Ok(a) with no handler call; unequal values invoke the handler
\* exactly once with {Ok(a), Ok(b)} and return its value.
C7_BothSucceed ==
    (pc = "done" /\ entry = "run_result" /\ Both /\ IsOk(c0) /\ IsOk(x0)) =>
        IF c0.v = x0.v
        THEN /\ ret = c0
             /\ mismatches = << >>
             /\ Positions("on_mismatch") = {}
        ELSE /\ mismatches = << [control |-> c0, experimental |-> x0] >>
             /\ Cardinality(Positions("on_mismatch")) = 1
             /\ ret = on_mismatch(mismatch_handler,
                                  [control |-> c0, experimental |-> x0])

C7_Witness ==
    /\ pc = "done"
    /\ entry = "run_result"
    /\ Both
    /\ IsOk(c0)
    /\ IsOk(x0)
    /\ c0.v # x0.v
    /\ Len(mismatches) = 1
    /\ ret = x0

\* what the code after the join does or records
AfterAwait ==
    Positions("thesis_experiment_outcome") \cup Positions("on_mismatch")
        \cup Positions("return")

\* C8: under UseExperimentalAndCompare neither computation is dropped before
\* it is ready, and the outcome events, the handler call and the return come
\* after the last step of both computations, which have then both completed.
C8_Rendezvous ==
    Both =>
        /\ control.status # "dropped"
        /\ experimental.status # "dropped"
        /\ (pc = "done" \/ mismatches # << >> \/ AfterAwait # {}) =>
              /\ control.status = "ready"
              /\ experimental.status = "ready"
              /\ control.polled = control_builder.steps
              /\ experimental.polled = experimental_builder.steps
        /\ \A i \in AfterAwait :
              \A j \in Positions("poll") \cup Positions("thesis_experiment_run_duration") :
                 j < i

C8_Witness ==
    /\ pc = "done"
    /\ Both
    /\ Len(mismatches) = 1
    /\ experimental.polled >= 2
    /\ \E i \in PositionsOf("thesis_experiment_run_duration", "control") :
          \E j \in PositionsOf("poll", "experimental") : i < j

\* C9: the handler is invoked at most once per invocation, and never under
\* UseControl or UseExperimental.
C9_HandlerAtMostOnce ==
    /\ Len(mismatches) <= 1
    /\ Cardinality(Positions("on_mismatch")) = Len(mismatches)
    /\ ~Both => mismatches = << >>

C9_Witness ==
    /\ pc = "done"
    /\ entry = "run_result"
    /\ decision = UseControl
    /\ mismatch_handler.f = "experimental"
    /\ IsErr(ret)
    /\ IsOk(x0)
    /\ mismatches = << >>

\* C10: the rollout strategy is queried exactly once per invocation, before
\* the first step of either computation, and building the Experiment takes
\* no step of either computation and queries nothing.
C10_DecisionOnceFirst ==
    /\ pc = "building" =>
          /\ history = << >>
          /\ decision = "none"
          /\ control = Unstarted
          /\ experimental = Unstarted
    /\ pc # "building" =>
          /\ Cardinality(Positions("rollout_decision")) = 1
          /\ \A i \in Positions("rollout_decision") :
                /\ history[i].outcome = decision
                /\ \A j \in Positions("poll") : i < j

C10_Witness ==
    /\ pc = "running"
    /\ Both
    /\ rollout_strategy.kind = "random"
    /\ mismatch_handler.kind = "FnTrait"
    /\ PositionsOf("poll", "control") # {}
    /\ PositionsOf("poll", "experimental") # {}

\* C11 as stated: whenever control ran in run_result and failed with e, the
\* returned result is failure(e) or the experimental success value chosen by
\* the handler.
C11_Original ==
    (pc = "done" /\ entry = "run_result" /\ control.status = "ready" /\ IsErr(c0)) =>
        \/ ret = c0
        \/ /\ IsOk(x0)
           /\ ret = x0
           /\ Len(mismatches) = 1

\* C11 amended: whenever control ran in run_result and failed with e, the
\* returned result is failure(e), except under UseExperimentalAndCompare with
\* a successful experimental value, where it is exactly what the handler
\* returns for {control: failure(e), experimental: success(b)}; that is
\* failure(e) or success(b) when the handler picks one of the two sides.
C11_ControlFailureVisible ==
    (pc = "done" /\ entry = "run_result" /\ control.status = "ready" /\ IsErr(c0)) =>
        IF Both /\ IsOk(x0)
        THEN /\ mismatches = << [control |-> c0, experimental |-> x0] >>
             /\ ret = on_mismatch(mismatch_handler,
                                  [control |-> c0, experimental |-> x0])
             /\ mismatch_handler.f \in {"control", "experimental"} =>
                   ret \in {c0, x0}
        ELSE /\ ret = c0
             /\ mismatches = << >>

C11_Witness ==
    /\ pc = "done"
    /\ entry = "run_result"
    /\ Both
    /\ IsErr(c0)
    /\ IsOk(x0)
    /\ mismatch_handler.f = "const"
    /\ IsOk(ret)
    /\ ret # x0

\* C12: when on_mismatch was never called on the builder, run under UseControl
\* or UseExperimentalAndCompare returns the control computation's value,
\* whether or not the experimental value differs.
C12_DefaultReturnsControl ==
    (/\ pc = "done"
     /\ entry = "run"
     /\ mismatch_handler.kind # "FnTrait"
     /\ decision \in {UseControl, UseExperimentalAndCompare}) =>
        ret = c0

C12_Witness ==
    /\ pc = "done"
    /\ entry = "run"
    /\ Both
    /\ mismatch_handler.kind = "AlwaysControl"
    /\ c0 # x0
    /\ mismatches = << [control |-> c0, experimental |-> x0] >>
    /\ ret = c0

\* the number of Experiment fields a step changes
FieldsChanged ==
    Cardinality({i \in 1..6 : fields'[i] # fields[i]})

\* C13: an invocation exists only once control, experimental and the rollout
\* strategy have all been supplied; every builder step replaces one field and
\* leaves the name and the other fields as they were, and nothing changes the
\* configuration once it runs, so the configuration that runs holds for each
\* field the last value supplied, in whatever order the setters were applied.
C13_BuilderFrame ==
    /\ [](pc # "building" =>
             /\ control_builder.set
             /\ experimental_builder.set
             /\ rollout_strategy.set)
    /\ [][/\ FieldsChanged <= 1
          /\ name' = name
          /\ result_type' = result_type
          /\ pc # "building" => UNCHANGED fields
          /\ FieldsChanged = 1 => UNCHANGED exec]_vars

C13_Witness ==
    /\ pc = "running"
    /\ control_builder.set
    /\ experimental_builder.set
    /\ rollout_strategy.set
    /\ mismatch_handler.kind = "FnTrait"
    /\ control_builder # experimental_builder

\* the two sides disagree: unequal values in run; in run_result unequal
\* success values, or one side a success and the other a failure
Disagree ==
    IF entry = "run"
    THEN c0 # x0
    ELSE \/ IsOk(c0) /\ IsOk(x0) /\ c0.v # x0.v
         \/ IsOk(c0) /\ IsErr(x0)
         \/ IsErr(c0) /\ IsOk(x0)

MismatchEvents ==
    {i \in DOMAIN history :
        history[i].op = "thesis_experiment_outcome" /\ history[i].outcome = "mismatch"}

\* C14: an invocation that returns has recorded exactly one mismatch event,
\* tagged with the experiment name, when it ran both sides and they disagree,
\* and none when they agree or when the decision is UseControl or
\* UseExperimental; no mismatch event is recorded before the comparison.
C14_OneMismatchEvent ==
    /\ pc = "done" =>
          /\ Cardinality(MismatchEvents) = (IF Both /\ Disagree THEN 1 ELSE 0)
          /\ \A i \in MismatchEvents : history[i] = outcome_mismatch(name)
    /\ pc # "done" => MismatchEvents = {}

C14_Witness ==
    /\ pc = "done"
    /\ entry = "run_result"
    /\ Both
    /\ IsOk(c0)
    /\ IsErr(x0)
    /\ Cardinality(MismatchEvents) = 1
    /\ mismatches = << >>

\* the variant tag that corresponds to a decision
KindOf ==
    [d \in RolloutDecision |->
        IF d = UseControl THEN "control"
        ELSE IF d = UseExperimental THEN "experimental"
        ELSE "experimental_and_compare"]

\* C15: every invocation records exactly one run counter event and exactly
\* one variant counter event, both tagged with the experiment name, and the
\* variant's kind is that of the decision the rollout strategy returned;
\* nothing is counted before the invocation.
C15_RunAndVariantCounted ==
    /\ pc = "building" =>
          /\ Positions("thesis_experiment_run_total") = {}
          /\ Positions("thesis_experiment_run_variant") = {}
    /\ pc # "building" =>
          /\ Cardinality(Positions("thesis_experiment_run_total")) = 1
          /\ Cardinality(Positions("thesis_experiment_run_variant")) = 1
          /\ \A i \in Positions("thesis_experiment_run_total") :
                history[i].name = name
          /\ \A i \in Positions("thesis_experiment_run_variant") :
                /\ history[i].name = name
                /\ history[i].kind = KindOf[decision]
                /\ \A j \in Positions("rollout_decision") :
                      history[j].outcome = decision /\ j < i

C15_Witness ==
    /\ pc = "done"
    /\ entry = "run"
    /\ Both
    /\ rollout_strategy.kind = "random"
    /\ PositionsOf("thesis_experiment_run_variant", "experimental_and_compare") # {}

Sides == {"control", "experimental"}
FutureOf(side) == IF side = "control" THEN control ELSE experimental
BuilderOf(side) == IF side = "control" THEN control_builder ELSE experimental_builder

\* C16: per side, a future that ran to completion has recorded exactly one
\* duration, and when its invocation returns, exactly one outcome event in
\* run_result, tagged ok or error as its result is, and none in run; a side
\* that took no step records neither, and neither is ever recorded twice.
C16_PerSideEvents ==
    \A side \in Sides :
        LET durations == PositionsOf("thesis_experiment_run_duration", side)
            outcomes == PositionsOf("thesis_experiment_outcome", side)
            f == FutureOf(side)
        IN  /\ Cardinality(durations) = (IF f.status = "ready" THEN 1 ELSE 0)
            /\ Cardinality(outcomes) =
                  (IF pc = "done" /\ f.status = "ready" /\ entry = "run_result"
                   THEN 1 ELSE 0)
            /\ \A i \in outcomes :
                  /\ history[i].name = name
                  /\ history[i].outcome =
                        (IF IsOk(BuilderOf(side).out) THEN "ok" ELSE "error")
            /\ f.polled = 0 => durations = {} /\ outcomes = {}

C16_Witness ==
    /\ pc = "done"
    /\ entry = "run_result"
    /\ decision = UseExperimental
    /\ IsErr(x0)
    /\ IsOk(c0)
    /\ Recorded(outcome_error(name, "experimental")) = 1
    /\ PositionsOf("thesis_experiment_run_duration", "control") = {}

\* C17: run_result under UseControl returns control's result as it is, and
\* under UseExperimental experimental's result as it is, success or failure,
\* after recording that side's outcome event; the other side takes no step,
\* the handler is not invoked and no mismatch event is recorded.
C17_SinglePathResult ==
    (pc = "done" /\ entry = "run_result" /\ ~Both) =>
        LET side == IF decision = UseControl THEN "control" ELSE "experimental"
            other == IF decision = UseControl THEN "experimental" ELSE "control"
            out == BuilderOf(side).out
        IN  /\ ret = out
            /\ mismatches = << >>
            /\ Positions("on_mismatch") = {}
            /\ MismatchEvents = {}
            /\ FutureOf(other).polled = 0
            /\ PositionsOf("thesis_experiment_outcome", other) = {}
            /\ Recorded(outcome(name, side, out)) = 1
            /\ \A i \in PositionsOf("thesis_experiment_outcome", side) :
                  \A j \in Positions("return") : i < j

C17_Witness ==
    /\ pc = "done"
    /\ entry = "run_result"
    /\ decision = UseExperimental
    /\ IsErr(x0)
    /\ IsOk(c0)
    /\ mismatch_handler.f = "control"
    /\ ret = x0
    /\ control.polled = 0

\* the phase of an invocation an entry of history belongs to
Phase(e) ==
    CASE e.op = "thesis_experiment_run_total" -> 0
      [] e.op = "rollout_decision" -> 1
      [] e.op = "thesis_experiment_run_variant" -> 2
      [] e.op \in {"poll", "thesis_experiment_run_duration"} -> 3
      [] e.op = "thesis_experiment_outcome" /\ e.outcome # "mismatch" -> 4
      [] e.op = "thesis_experiment_outcome" /\ e.outcome = "mismatch" -> 5
      [] e.op = "on_mismatch" -> 6
      [] OTHER -> 7

\* C18: within an invocation the decision query, the variant event, the
\* steps of the computation(s), the outcome events, the mismatch event, the
\* handler call and the return occur in this order, each phase over before
\* the next begins; the query, the handler call and the return occur at most
\* once, so neither the rollout strategy nor the handler runs while a
\* computation or the other of the two is running.
C18_PhasesInOrder ==
    /\ \A i, j \in DOMAIN history :
          i < j => Phase(history[i]) <= Phase(history[j])
    /\ \A i, j \in DOMAIN history :
          (i < j /\ Phase(history[i]) = Phase(history[j])) =>
              Phase(history[i]) \in {3, 4}
    /\ (Positions("return") # {}) = (pc = "done")

C18_Witness ==
    /\ pc = "done"
    /\ entry = "run_result"
    /\ Both
    /\ Len(mismatches) = 1
    /\ control.polled >= 2
    /\ experimental.polled >= 2
    /\ \E i \in PositionsOf("poll", "experimental") :
          \E j \in PositionsOf("poll", "control") :
             \E k \in PositionsOf("poll", "experimental") : i < j /\ j < k

\* the decision taken makes the invocation await this side
Awaits(side) ==
    \/ Both
    \/ side = "control" /\ decision = UseControl
    \/ side = "experimental" /\ decision = UseExperimental

\* C19: under fair scheduling an invocation whose awaited computations all
\* complete returns, with exactly one return and a value, and nothing happens
\* after it; under UseExperimentalAndCompare an invocation one of whose
\* computations never completes never returns, and no computation is ever
\* taken past its last step or started again.
C19_Termination ==
    /\ [](pc = "running" /\ (\A side \in Sides : Awaits(side) => ~BuilderOf(side).hangs)
             => <>(/\ pc = "done"
                   /\ Cardinality(Positions("return")) = 1
                   /\ ret # NoValue))
    /\ []((Both /\ (control_builder.hangs \/ experimental_builder.hangs)) =>
             /\ pc # "done"
             /\ ret = NoValue
             /\ Positions("return") = {})
    /\ [](\A side \in Sides : FutureOf(side).polled <= BuilderOf(side).steps)
    /\ [][pc # "done"]_vars

C19_Witness ==
    /\ pc = "running"
    /\ Both
    /\ ~control_builder.hangs
    /\ experimental_builder.hangs
    /\ control.status = "ready"
    /\ experimental.status = "pending"
    /\ experimental.polled = experimental_builder.steps

\* what an invocation under UseExperimentalAndCompare yields, as a function
\* of the entry point, the two results and the handler alone
Reconciles ==
    IF entry = "run" THEN c0 # x0
    ELSE \/ IsOk(c0) /\ IsOk(x0) /\ c0.v # x0.v
         \/ IsErr(c0) /\ IsOk(x0)

PairOf == [control |-> c0, experimental |-> x0]

ExpectedCalls == IF Reconciles THEN << PairOf >> ELSE << >>

ExpectedRet ==
    IF ~Reconciles THEN c0
    ELSE CASE mismatch_handler.f = "control" -> c0
           [] mismatch_handler.f = "experimental" -> x0
           [] OTHER -> mismatch_handler.out

ExpectedEvents ==
    (IF entry = "run_result"
     THEN << Ev("thesis_experiment_outcome", name, "control",
                IF IsOk(c0) THEN "ok" ELSE "error"),
             Ev("thesis_experiment_outcome", name, "experimental",
                IF IsOk(x0) THEN "ok" ELSE "error") >>
     ELSE << >>)
    \o (IF Disagree
        THEN << Ev("thesis_experiment_outcome", name, "experimental_and_compare",
                   "mismatch") >>
        ELSE << >>)
    \o (IF Reconciles THEN << Ev("on_mismatch", name, "", "") >> ELSE << >>)

IsOutcomeOrCall(e) == e.op \in {"thesis_experiment_outcome", "on_mismatch"}

\* C20: under UseExperimentalAndCompare the returned value, the handler
\* calls with their pair, and the outcome and mismatch events in their order
\* (control's outcome before experimental's) are determined by the two
\* results and the handler, whichever computation finishes first: any two
\* runs with the same results and handler agree on all of them.
C20_InterleavingIndependent ==
    (pc = "done" /\ Both) =>
        /\ ret = ExpectedRet
        /\ mismatches = ExpectedCalls
        /\ SelectSeq(history, IsOutcomeOrCall) = ExpectedEvents

C20_Witness ==
    /\ pc = "done"
    /\ entry = "run_result"
    /\ Both
    /\ IsErr(c0)
    /\ IsOk(x0)
    /\ Len(mismatches) = 1
    /\ control.polled >= 2
    /\ \E i \in PositionsOf("thesis_experiment_run_duration", "experimental") :
          \E j \in PositionsOf("poll", "control") : i < j

====
